---------------------------- MODULE Spec2Model ----------------------------
(***************************************************************************)
(* Model of mdBook-blog (src/src/lib.rs): the preprocessor run that walks  *)
(* the posts directory, extracts a date from each file name, sorts the     *)
(* posts and pushes one chapter per post onto the book.                    *)
(*                                                                         *)
(* A Rust string is a sequence of characters, each a one-character TLA+    *)
(* string; only the character "é" is wider than one byte in UTF-8.  A path *)
(* is a sequence of components, the first of which is RootDir when the     *)
(* path is absolute (std::path::Components on Unix).                       *)
(***************************************************************************)
EXTENDS Integers, Sequences, FiniteSets, TLC

VARIABLES
    \* ---- one call of BlogPreprocessor::run ----
    directory,    \* config.directory.0, a path
    sort_by,      \* config.sort_by
    walk,         \* what WalkDir::new(posts_dir) yields, in walk order
    book0,        \* book.sections as handed to run
    book,         \* book.sections, the local of run
    posts,        \* the Vec<Post> of run
    wi,           \* position of the filter_map iterator in the walk
    gi,           \* position of the graft loop in posts
    pc,           \* "collect", "graft" or "done"; "idle" when run is not called
    result,       \* what run hands to its caller
    \* ---- one call of extract_date_from_filename on its own ----
    basename,     \* the base name given to the extractor
    extracted     \* its result, or Pending before the call

vars == <<directory, sort_by, walk, book0, book, posts, wi, gi, pc, result,
          basename, extracted>>

runVars == <<directory, sort_by, walk, book0, book, posts, wi, gi, pc, result>>

(***************************************************************************)
(* Strings                                                                 *)
(***************************************************************************)
Digits == {"0", "1", "2", "3", "4", "5", "6", "7", "8", "9"}

DigitVal(c) ==
    CASE c = "0" -> 0 [] c = "1" -> 1 [] c = "2" -> 2 [] c = "3" -> 3
      [] c = "4" -> 4 [] c = "5" -> 5 [] c = "6" -> 6 [] c = "7" -> 7
      [] c = "8" -> 8 [] c = "9" -> 9

\* The number of bytes of a character in UTF-8.
Utf8Len(c) == IF c = "é" THEN 2 ELSE 1

\* The byte offset of the character at 0-based character position k.
RECURSIVE ByteOffset(_, _)
ByteOffset(s, k) ==
    IF k = 0 THEN 0 ELSE ByteOffset(s, k - 1) + Utf8Len(s[k])

\* str::is_char_boundary.
IsCharBoundary(s, b) == \E k \in 0..Len(s) : ByteOffset(s, k) = b

\* &s[..b] for a byte index b: the characters before byte b, or a panic
\* when b is inside a character.
SliceTo(s, b) ==
    IF IsCharBoundary(s, b)
    THEN [kind |-> "Ok",
          str  |-> SubSeq(s, 1, CHOOSE k \in 0..Len(s) : ByteOffset(s, k) = b)]
    ELSE [kind |-> "Panic"]

\* The Unicode scalar value of a character; String's Ord compares bytes,
\* which orders strings as their scalar values do.
CharCode(c) ==
    CASE c = "-" -> 45 [] c = "." -> 46
      [] c \in Digits -> 48 + DigitVal(c)
      [] c = "D" -> 68 [] c = "M" -> 77 [] c = "P" -> 80
      [] c = "a" -> 97 [] c = "b" -> 98 [] c = "d" -> 100 [] c = "e" -> 101
      [] c = "h" -> 104 [] c = "l" -> 108 [] c = "m" -> 109 [] c = "n" -> 110
      [] c = "o" -> 111 [] c = "p" -> 112 [] c = "r" -> 114 [] c = "s" -> 115
      [] c = "t" -> 116 [] c = "w" -> 119 [] c = "x" -> 120 [] c = "y" -> 121
      [] c = "é" -> 233

\* Ord::cmp on two strings.
RECURSIVE StrCmp(_, _)
StrCmp(a, b) ==
    IF a = <<>> /\ b = <<>> THEN "Equal"
    ELSE IF a = <<>> THEN "Less"
    ELSE IF b = <<>> THEN "Greater"
    ELSE IF CharCode(Head(a)) < CharCode(Head(b)) THEN "Less"
    ELSE IF CharCode(Head(a)) > CharCode(Head(b)) THEN "Greater"
    ELSE StrCmp(Tail(a), Tail(b))

(***************************************************************************)
(* Dates: chrono::naive::NaiveDate                                         *)
(***************************************************************************)
IsLeapYear(y) == y % 4 = 0 /\ (y % 100 # 0 \/ y % 400 = 0)

DaysInMonth(y, m) ==
    IF m = 2 THEN (IF IsLeapYear(y) THEN 29 ELSE 28)
    ELSE IF m \in {4, 6, 9, 11} THEN 30 ELSE 31

\* NaiveDate::from_ymd_opt: the years of a NaiveDate are -262143..262142.
ValidYmd(y, m, d) ==
    /\ y \in -262143..262142
    /\ m \in 1..12
    /\ d \in 1..DaysInMonth(y, m)

\* Ord::cmp on two dates.
DateCmp(a, b) ==
    LET ka == (a.year * 12 + a.month) * 32 + a.day
        kb == (b.year * 12 + b.month) * 32 + b.day
    IN  IF ka < kb THEN "Less" ELSE IF ka > kb THEN "Greater" ELSE "Equal"

\* scan::number(s, 1, max): the longest run of at most max leading digits.
RECURSIVE DigitRun(_, _)
DigitRun(s, max) ==
    IF max = 0 \/ s = <<>> \/ Head(s) \notin Digits THEN 0
    ELSE 1 + DigitRun(Tail(s), max - 1)

RECURSIVE NumberOf(_)
NumberOf(ds) ==
    IF ds = <<>> THEN 0
    ELSE NumberOf(SubSeq(ds, 1, Len(ds) - 1)) * 10 + DigitVal(ds[Len(ds)])

Drop(s, n) == SubSeq(s, n + 1, Len(s))

\* A run of digits without its leading zeros.
RECURSIVE Significant(_)
Significant(ds) ==
    IF ds # <<>> /\ Head(ds) = "0" THEN Significant(Tail(ds)) ELSE ds

\* <NaiveDate as FromStr>::from_str on a string without white space or "+":
\* a year (after "-", any number of digits; unsigned, at most four), "-",
\* a month of at most two digits, "-", a day of at most two digits, and
\* nothing after it; then the date must exist.  A year of more than six
\* significant digits is out of range whatever its value.
ParseDate(s) ==
    LET neg   == s # <<>> /\ Head(s) = "-"
        s1    == IF neg THEN Tail(s) ELSE s
        ny    == DigitRun(s1, IF neg THEN Len(s1) ELSE 4)
        s2    == Drop(s1, ny)
        lit1  == s2 # <<>> /\ Head(s2) = "-"
        s3    == IF lit1 THEN Tail(s2) ELSE <<>>
        nm    == DigitRun(s3, 2)
        s4    == Drop(s3, nm)
        lit2  == s4 # <<>> /\ Head(s4) = "-"
        s5    == IF lit2 THEN Tail(s4) ELSE <<>>
        nd    == DigitRun(s5, 2)
        s6    == Drop(s5, nd)
        ydig  == Significant(SubSeq(s1, 1, ny))
        y     == (IF neg THEN -1 ELSE 1) * NumberOf(ydig)
        m     == NumberOf(SubSeq(s3, 1, nm))
        d     == NumberOf(SubSeq(s5, 1, nd))
    IN  IF /\ ny > 0 /\ lit1 /\ nm > 0 /\ lit2 /\ nd > 0 /\ s6 = <<>>
           /\ Len(ydig) <= 6
           /\ ValidYmd(y, m, d)
        THEN [kind |-> "Ok", date |-> [year |-> y, month |-> m, day |-> d]]
        ELSE [kind |-> "Err"]

(***************************************************************************)
(* extract_date_from_filename                                              *)
(***************************************************************************)
\* The loop over basename.chars().enumerate(): the 0-based character
\* position of the third "-", or 0 when the loop ends without a break.
RECURSIVE ScanHyphens(_, _, _)
ScanHyphens(s, i, count) ==
    IF i >= Len(s) THEN 0
    ELSE LET c == IF s[i + 1] = "-" THEN count + 1 ELSE count
         IN  IF c = 3 THEN i ELSE ScanHyphens(s, i + 1, c)

\* A loop that keeps the position after the third "-".
RECURSIVE ScanHyphensPast(_, _, _)
ScanHyphensPast(s, i, count) ==
    IF i >= Len(s) THEN 0
    ELSE LET c == IF s[i + 1] = "-" THEN count + 1 ELSE count
         IN  IF c = 3 THEN i + 1 ELSE ScanHyphensPast(s, i + 1, c)

HyphenIndexPast(name) == ScanHyphensPast(name, 0, 0)

\* A loop whose index is the end of the name when no third "-" is found.
HyphenIndexOrEnd(name) ==
    IF Cardinality({i \in 1..Len(name) : name[i] = "-"}) >= 3
    THEN ScanHyphens(name, 0, 0)
    ELSE ByteOffset(name, Len(name))

HyphenIndex(name) == ScanHyphens(name, 0, 0)

\* The extractor on a base name: the character position is used as a byte
\* index into the base name, and the slice is parsed as a date.
extract_date_from_filename(name) ==
    LET slice == SliceTo(name, HyphenIndex(name))
    IN  IF slice.kind = "Panic" THEN [kind |-> "Panic"]
        ELSE ParseDate(slice.str)


(***************************************************************************)
(* std::path                                                               *)
(***************************************************************************)
\* The component std::path::Component::RootDir.
RootDir == <<"/">>

\* Path::is_absolute (Unix).
IsAbsolute(p) == p # <<>> /\ Head(p) = RootDir

\* Path::join: an absolute right-hand side replaces the left-hand side.
PathJoin(a, b) == IF IsAbsolute(b) THEN b ELSE a \o b

\* Path::strip_prefix: base must be a prefix of p, component by component.
StripPrefix(p, base) ==
    IF Len(base) <= Len(p) /\ SubSeq(p, 1, Len(base)) = base
    THEN [kind |-> "Ok", path |-> Drop(p, Len(base))]
    ELSE [kind |-> "Err"]

\* Path::file_name of a path that ends in a normal component.
FileName(p) == p[Len(p)]

\* Path::extension: what follows the last "." of the file name; None when
\* there is no "." or the only one is the first character.
Extension(p) ==
    LET name == FileName(p)
        dots == {i \in 1..Len(name) : name[i] = "."}
    IN  IF dots = {} THEN [some |-> FALSE]
        ELSE LET k == CHOOSE i \in dots : \A j \in dots : j <= i
             IN  IF k = 1 THEN [some |-> FALSE]
                 ELSE [some |-> TRUE, ext |-> Drop(name, k)]

(***************************************************************************)
(* The base names the inputs are drawn from                                *)
(***************************************************************************)
ValidPrefixes == {
    <<"2", "0", "2", "4", "-", "0", "1", "-", "0", "1">>,
    <<"2", "0", "2", "4", "-", "0", "3", "-", "0", "5">>,
    <<"2", "0", "2", "4", "-", "0", "2", "-", "2", "9">> }

OtherPrefixes == {
    <<"2", "0", "2", "3", "-", "0", "2", "-", "2", "9">>,
    <<"2", "0", "2", "4", "-", "1", "3", "-", "0", "1">>,
    <<"2", "0", "2", "4", "-", "1", "-", "5">> }

Rests == {
    <<>>,
    <<"-", "h", "e", "l", "l", "o">>,
    <<"-", "m", "y", "-", "p", "o", "s", "t">>,
    <<"-", "x", "-", "é">> }

Exts == {
    <<>>,
    <<".", "m", "d">>,
    <<".", "M", "D">>,
    <<".", "t", "x", "t">> }

OddNames == {
    <<"p", "o", "s", "t", ".", "m", "d">>,
    <<"a", "-", "b", ".", "m", "d">>,
    <<"n", "o", "t", "-", "a", "-", "d", "a", "t", "e", "-", "p", "o", "s", "t", ".", "m", "d">>,
    <<"a", "-", "b", "-", "é", "-", "x", ".", "m", "d">>,
    <<"é", "-", "a", "-", "b", "-", "x", ".", "m", "d">>,
    <<"-", "2", "0", "2", "4", "-", "0", "1", "-", "0", "1", "-", "x", ".", "m", "d">>,
    <<"2", "0", "2", "4", "5", "-", "0", "1", "-", "0", "1", "-", "x", ".", "m", "d">>,
    <<".", "m", "d">> }

BaseNames ==
    {p \o r \o e : p \in ValidPrefixes \cup OtherPrefixes, r \in Rests, e \in Exts}
        \cup OddNames

(***************************************************************************)
(* One call of extract_date_from_filename                                  *)
(***************************************************************************)
Pending == [kind |-> "Pending"]

Idle ==
    /\ directory = <<>> /\ sort_by = "Newest" /\ walk = <<>>
    /\ book0 = <<>> /\ book = <<>> /\ posts = <<>>
    /\ wi = 1 /\ gi = 1 /\ pc = "idle" /\ result = [tag |-> "Running"]

InitExtract ==
    /\ basename \in BaseNames
    /\ extracted = Pending
    /\ Idle

Extract ==
    /\ pc = "idle"
    /\ extracted = Pending
    /\ extracted' = extract_date_from_filename(basename)
    /\ UNCHANGED <<basename, runVars>>

NextExtract == Extract

SpecExtract == InitExtract /\ [][NextExtract]_vars


(***************************************************************************)
(* The build context and the file system of one run                        *)
(***************************************************************************)
\* ctx.root.join(&ctx.config.book.src), with root /book and src "src".
src_dir == PathJoin(<<RootDir, <<"b", "o", "o", "k">>>>, <<<<"s", "r", "c">>>>)

\* What the `directory` key may hold: a relative name (the test's) and an
\* absolute path.
Directories == {
    <<<<"b", "l", "o", "g", "s">>>>,
    <<RootDir, <<"s", "r", "v">>, <<"p", "o", "s", "t", "s">>>> }

\* src_dir.join(&config.directory.0).
posts_dir == PathJoin(src_dir, directory)

\* config.chapter_name.0, the default.
chapter_name == <<"P", "o", "s", "t", "s">>

SortBys == {"Newest", "Oldest", "NameAZ", "NameZA"}

\* The entries a posts directory may hold, by base name.
FileNames == {
    <<"2", "0", "2", "4", "-", "0", "1", "-", "0", "1", "-", "h", "e", "l", "l", "o", ".", "m", "d">>,
    <<"2", "0", "2", "4", "-", "0", "3", "-", "0", "5", "-", "m", "y", "-", "p", "o", "s", "t", ".", "m", "d">>,
    <<"n", "o", "t", "-", "a", "-", "d", "a", "t", "e", "-", "p", "o", "s", "t", ".", "m", "d">>,
    <<"a", "-", "b", "-", "é", "-", "x", ".", "m", "d">>,
    <<"2", "0", "2", "4", "-", "0", "2", "-", "2", "9", "-", "h", "e", "l", "l", "o", ".", "M", "D">>,
    <<"2", "0", "2", "4", "-", "0", "2", "-", "2", "9", "-", "h", "e", "l", "l", "o", ".", "t", "x", "t">>,
    <<"2", "0", "2", "4", "-", "0", "2", "-", "2", "9", "-", "h", "e", "l", "l", "o">> }

DirNames == {
    <<"2", "0", "2", "4", "-", "0", "2", "-", "2", "9", "-", "m", "y", "-", "p", "o", "s", "t", ".", "m", "d">> }

\* What the walk can yield for the entries of the directory: a file, a
\* directory, or an entry that could not be read.
DirEntries ==
    {[ok |-> TRUE, kind |-> "file", name |-> n] : n \in FileNames}
        \cup {[ok |-> TRUE, kind |-> "dir", name |-> n] : n \in DirNames}
        \cup {[ok |-> FALSE, kind |-> "denied", name |-> <<"s", "u", "b">>]}

\* The walk starts with the root itself: the directory, or the error of a
\* root that does not exist.
RootEntry == [ok |-> TRUE, kind |-> "dir", name |-> <<>>]
RootMissing == [ok |-> FALSE, kind |-> "missing", name |-> <<>>]

MaxWalk == 3

RECURSIVE DistinctSeqs(_, _)
DistinctSeqs(S, n) ==
    IF n = 0 THEN {<<>>}
    ELSE LET shorter == DistinctSeqs(S, n - 1)
         IN  shorter \cup
             {Append(w, e) : w \in {v \in shorter : Len(v) = n - 1}, e \in S}

Walks ==
    {<<RootMissing>>} \cup
    {<<RootEntry>> \o w :
        w \in {v \in DistinctSeqs(DirEntries, MaxWalk) :
                 \A i, j \in 1..Len(v) : i # j => v[i].name # v[j].name}}

\* DirEntry::into_path.
EntryPath(e) == IF e.name = <<>> THEN posts_dir ELSE Append(posts_dir, e.name)

\* The chapter the book holds before the run (the test's book).
Chapter1 ==
    [name |-> "Chapter 1", content |-> "# Chapter 1\n",
     path |-> <<<<"c", "h", "a", "p", "t", "e", "r", "_", "1", ".", "m", "d">>>>, source_path |-> <<<<"c", "h", "a", "p", "t", "e", "r", "_", "1", ".", "m", "d">>>>,
     parent_names |-> <<>>]

Books == {<<>>, <<Chapter1>>}

\* std::fs::read_to_string of a file that can be read.
FileContent(path) == <<"#">> \o FileName(path)

(***************************************************************************)
(* collect_posts                                                           *)
(***************************************************************************)
\* path_buf.is_file() && path_buf.extension().map_or(false, |ext| ext == "md")
\* without the test of is_file.
is_md_file_any_kind(e) ==
    LET ext == Extension(EntryPath(e))
    IN  ext.some /\ ext.ext = <<"m", "d">>

is_md_file(e) ==
    /\ e.kind = "file"
    /\ LET ext == Extension(EntryPath(e))
       IN  ext.some /\ ext.ext = <<"m", "d">>

\* Post::new.
NewPost(path, date, name, parent_name) ==
    [path |-> path, date |-> date, name |-> name, parent_name |-> parent_name]

\* The call Post::new(path_buf, date, parent_name.clone()) gives three of
\* the four arguments, by position path, date and name: the fourth,
\* parent_name, is left out, and the String it holds is any of these.
UnsuppliedParentNames == {
    <<"X">>,
    <<"P", "o", "s", "t", "s">> }

\* The closure of filter_map that unwraps the walk's result.
collect_entry_unwrap(e, parent_name, unsupplied) ==
    IF ~e.ok THEN [kind |-> "Panic"]
    ELSE IF is_md_file(e)
    THEN LET r == extract_date_from_filename(FileName(EntryPath(e)))
         IN  CASE r.kind = "Ok" ->
                    [kind |-> "Some",
                     post |-> NewPost(EntryPath(e), r.date, parent_name, unsupplied)]
               [] r.kind = "Err" -> [kind |-> "None"]
               [] r.kind = "Panic" -> [kind |-> "Panic"]
    ELSE [kind |-> "None"]

\* The closure of filter_map on one result of the walk: Some(post), None,
\* or the panic of the extractor; `unsupplied` is the argument the call of
\* Post::new leaves out.
collect_entry(e, parent_name, unsupplied) ==
    IF e.ok
    THEN IF is_md_file(e)
         THEN LET r == extract_date_from_filename(FileName(EntryPath(e)))
              IN  CASE r.kind = "Ok" ->
                         [kind |-> "Some",
                          post |-> NewPost(EntryPath(e), r.date, parent_name, unsupplied)]
                    [] r.kind = "Err" -> [kind |-> "None"]
                    [] r.kind = "Panic" -> [kind |-> "Panic"]
         ELSE [kind |-> "None"]
    ELSE [kind |-> "None"]

(***************************************************************************)
(* The sort of run                                                         *)
(***************************************************************************)
\* The comparator of the arm that matches `by`.  The first arm for Newest
\* compares a with b; the second arm for Newest is never reached.
Compare(by, a, b) ==
    CASE by = "Newest" -> DateCmp(a.date, b.date)
      [] by = "NameAZ" -> StrCmp(a.name, b.name)
      [] by = "NameZA" -> StrCmp(b.name, a.name)

\* slice::sort_by is stable: x, which came after everything in `sorted`,
\* goes before the first element that compares Greater than it.
RECURSIVE InsertSorted(_, _, _)
InsertSorted(by, sorted, x) ==
    IF sorted = <<>> THEN <<x>>
    ELSE IF Compare(by, Head(sorted), x) = "Greater" THEN <<x>> \o sorted
    ELSE <<Head(sorted)>> \o InsertSorted(by, Tail(sorted), x)

RECURSIVE StableSort(_, _)
StableSort(by, ps) ==
    IF ps = <<>> THEN <<>>
    ELSE InsertSorted(by, StableSort(by, SubSeq(ps, 1, Len(ps) - 1)), ps[Len(ps)])

\* The orders of the same posts.
Reorderings(ps) ==
    {[i \in 1..Len(ps) |-> ps[f[i]]] : f \in Permutations(1..Len(ps))}

\* match config.sort_by: the orders the posts can be left in.  The arms
\* for Newest, NameAZ and NameZA sort; no arm is written for Oldest, so the
\* source fixes no order for it and every order is possible.
sort_posts(by, ps) ==
    IF by \in {"Newest", "NameAZ", "NameZA"}
    THEN {StableSort(by, ps)}
    ELSE Reorderings(ps)

(***************************************************************************)
(* The graft loop of run                                                   *)
(***************************************************************************)
\* impl TryFrom<Post> for Chapter, when the file can be read: Chapter::new
\* sets path and source_path to the path given.
ChapterFromPost(post) ==
    [name |-> "test", content |-> FileContent(post.path),
     path |-> post.path, source_path |-> post.path,
     parent_names |-> <<post.parent_name>>]

\* Book::push_item at the front of the sections.
push_item_front(sections, chapter) == <<chapter>> \o sections

\* Book::push_item.
push_item(sections, chapter) == Append(sections, chapter)

\* The body of the loop after the chapter is built: the parent names, then
\* strip_prefix(&src_dir).expect(..), then path and push_item.
graft(sections, chapter) ==
    LET stripped == StripPrefix(chapter.source_path, src_dir)
    IN  IF stripped.kind = "Err" THEN [kind |-> "Panic"]
        ELSE [kind |-> "Ok",
              sections |-> push_item(sections,
                  [chapter EXCEPT !.parent_names = <<chapter_name>>,
                                  !.source_path = stripped.path,
                                  !.path = stripped.path])]

(***************************************************************************)
(* BlogPreprocessor::run                                                   *)
(***************************************************************************)
Init ==
    /\ directory \in Directories
    /\ sort_by \in SortBys
    /\ walk \in Walks
    /\ book0 \in Books
    /\ book = book0
    /\ posts = <<>>
    /\ wi = 1
    /\ gi = 1
    /\ pc = "collect"
    /\ result = [tag |-> "Running"]
    /\ basename = <<>>
    /\ extracted = Pending

\* One result of the walk goes through the closure of filter_map.
CollectEntry ==
    /\ pc = "collect"
    /\ wi <= Len(walk)
    /\ \E unsupplied \in UnsuppliedParentNames :
         LET r == collect_entry(walk[wi], chapter_name, unsupplied)
         IN  /\ posts' = IF r.kind = "Some" THEN Append(posts, r.post) ELSE posts
             /\ pc' = IF r.kind = "Panic" THEN "done" ELSE pc
             /\ result' = IF r.kind = "Panic"
                          THEN [tag |-> "Panic", at |-> "extract_date_from_filename"]
                          ELSE result
    /\ wi' = wi + 1
    /\ UNCHANGED <<directory, sort_by, walk, book0, book, gi, basename, extracted>>

\* The walk is over: collect() returns and the posts are sorted.
Sort ==
    /\ pc = "collect"
    /\ wi > Len(walk)
    /\ posts' \in sort_posts(sort_by, posts)
    /\ pc' = "graft"
    /\ UNCHANGED <<directory, sort_by, walk, book0, book, wi, gi, result,
                   basename, extracted>>

\* One turn of the loop over the posts; whether the file can still be read
\* is the file system's choice.
GraftPost ==
    /\ pc = "graft"
    /\ gi <= Len(posts)
    /\ \E readable \in BOOLEAN :
         IF ~readable
         THEN /\ result' = [tag |-> "Err", error |-> "io"]
              /\ pc' = "done"
              /\ UNCHANGED <<book, gi>>
         ELSE LET g == graft(book, ChapterFromPost(posts[gi]))
              IN  IF g.kind = "Panic"
                  THEN /\ result' = [tag |-> "Panic", at |-> "strip_prefix"]
                       /\ pc' = "done"
                       /\ UNCHANGED <<book, gi>>
                  ELSE /\ book' = g.sections
                       /\ gi' = gi + 1
                       /\ UNCHANGED <<result, pc>>
    /\ UNCHANGED <<directory, sort_by, walk, book0, posts, wi, basename, extracted>>

\* Ok(book).
Finish ==
    /\ pc = "graft"
    /\ gi > Len(posts)
    /\ result' = [tag |-> "Ok", sections |-> book]
    /\ pc' = "done"
    /\ UNCHANGED <<directory, sort_by, walk, book0, book, posts, wi, gi,
                   basename, extracted>>

Next == CollectEntry \/ Sort \/ GraftPost \/ Finish

Spec == Init /\ [][Next]_vars


(***************************************************************************)
(* What the properties speak of                                            *)
(***************************************************************************)
HyphenCount(s) == Cardinality({i \in 1..Len(s) : s[i] = "-"})

EndsWithMd(s) == Len(s) >= 3 /\ SubSeq(s, Len(s) - 2, Len(s)) = <<".", "m", "d">>

\* The date written in the first ten characters of a name.
FormDate(s) ==
    [year  |-> NumberOf(SubSeq(s, 1, 4)),
     month |-> NumberOf(SubSeq(s, 6, 7)),
     day   |-> NumberOf(SubSeq(s, 9, 10))]

\* The name has the form YYYY-MM-DD-X.md and YYYY-MM-DD is a date of the
\* calendar.
HasDatedForm(s) ==
    /\ Len(s) >= 14
    /\ \A i \in {1, 2, 3, 4, 6, 7, 9, 10} : s[i] \in Digits
    /\ s[5] = "-" /\ s[8] = "-" /\ s[11] = "-"
    /\ EndsWithMd(s)
    /\ ValidYmd(FormDate(s).year, FormDate(s).month, FormDate(s).day)

\* What follows the third hyphen of a dated name, with and without ".md".
NameRemainders(s) == {Drop(s, 11), SubSeq(s, 12, Len(s) - 3)}

\* The results of the walk that are regular files with the extension "md".
Candidates ==
    {i \in 1..Len(walk) :
        /\ walk[i].ok /\ walk[i].kind = "file"
        /\ EndsWithMd(walk[i].name) /\ Len(walk[i].name) > 3}

WellFormed == {i \in Candidates : HasDatedForm(walk[i].name)}

PanicAt(where) == result.tag = "Panic" /\ result.at = where

\* The sections the run has appended so far, or returned.
Appended(sections) == Drop(sections, Len(book0))

(***************************************************************************)
(* Properties of extract_date_from_filename (under SpecExtract)            *)
(***************************************************************************)
\* C1: for a base name YYYY-MM-DD-X.md whose YYYY-MM-DD is a date of the
\* calendar, whatever X is (hyphens included), the extractor succeeds and
\* returns exactly that date.
C1_DatedNameYieldsItsDate ==
    (extracted # Pending /\ HasDatedForm(basename))
        => extracted = [kind |-> "Ok", date |-> FormDate(basename)]

C1_Witness ==
    /\ extracted.kind = "Ok"
    /\ HasDatedForm(basename)
    /\ HyphenCount(basename) > 3

\* C2: for a base name with fewer than three hyphens the extractor returns
\* an error, never a date.
C2_FewerThanThreeHyphensFail ==
    (extracted # Pending /\ HyphenCount(basename) < 3)
        => extracted.kind = "Err"

C2_Witness ==
    /\ extracted.kind = "Err"
    /\ HyphenCount(basename) = 2
    /\ basename \in ValidPrefixes

(***************************************************************************)
(* Properties of BlogPreprocessor::run (under Spec)                        *)
(***************************************************************************)
\* C3: once the posts are sorted, with sort_by = Newest every adjacent pair
\* (a, b) has a.date >= b.date, and with sort_by = Oldest every adjacent
\* pair has a.date <= b.date.
C3_SortedByDate ==
    pc = "graft" =>
        \A i \in 1..(Len(posts) - 1) :
            /\ sort_by = "Newest" => DateCmp(posts[i].date, posts[i + 1].date) # "Less"
            /\ sort_by = "Oldest" => DateCmp(posts[i].date, posts[i + 1].date) # "Greater"

\* C4: every collected post carries as its name the remainder of its file
\* name after the date prefix, and once sorted with NameAZ (NameZA) every
\* adjacent pair (a, b) has a.name <= b.name (a.name >= b.name).
C4_NameIsRemainderAndSorted ==
    /\ \A i \in 1..Len(posts) :
           posts[i].name \in NameRemainders(FileName(posts[i].path))
    /\ pc = "graft" =>
           \A i \in 1..(Len(posts) - 1) :
               /\ sort_by = "NameAZ" => StrCmp(posts[i].name, posts[i + 1].name) # "Greater"
               /\ sort_by = "NameZA" => StrCmp(posts[i].name, posts[i + 1].name) # "Less"

\* C5: when exactly one of the N candidate .md files of the walk has a
\* malformed name, the collection does not abort the run and returns exactly
\* the posts of the N-1 well-formed files.
C5_OneBadNameIsSkipped ==
    Cardinality(Candidates \ WellFormed) = 1 =>
        /\ ~PanicAt("extract_date_from_filename")
        /\ pc = "graft" =>
               {posts[i].path : i \in 1..Len(posts)}
                   = {EntryPath(walk[i]) : i \in WellFormed}

\* C6: every collected post is a regular file of the walk whose extension is
\* exactly "md" and whose date was extracted from its name; no directory and
\* no entry with another extension is ever among the posts.
C6_PostsAreMdFiles ==
    \A i \in 1..Len(posts) :
        /\ EndsWithMd(FileName(posts[i].path))
        /\ \E j \in 1..(wi - 1) :
               /\ walk[j].ok /\ walk[j].kind = "file"
               /\ EntryPath(walk[j]) = posts[i].path
        /\ ~ \E j \in 1..Len(walk) :
               /\ walk[j].kind # "file"
               /\ EntryPath(walk[j]) = posts[i].path
        /\ HasDatedForm(FileName(posts[i].path))
        /\ posts[i].date = FormDate(FileName(posts[i].path))

C6_Witness ==
    /\ pc = "graft"
    /\ Len(posts) >= 1
    /\ \E j \in 1..Len(walk) : walk[j].kind = "dir" /\ EndsWithMd(walk[j].name)
    /\ \E j \in 1..Len(walk) : walk[j].kind = "file" /\ ~EndsWithMd(walk[j].name)

\* C7: when the posts directory does not exist, the run does not fail and
\* returns Ok with a tree equal to the one it was given.
C7_MissingDirectoryLeavesBook ==
    walk = <<RootMissing>> =>
        /\ result.tag \in {"Running", "Ok"}
        /\ pc = "done" => result = [tag |-> "Ok", sections |-> book0]

C7_Witness ==
    /\ walk = <<RootMissing>>
    /\ pc = "done"
    /\ result.tag = "Ok"
    /\ book0 # <<>>

\* C8: a run ends in exactly one of two outcomes: Err (a post's file could
\* not be read; no tree is returned), or Ok with a tree in which every
\* collected post is grafted.
C8_OkWithAllPostsOrErr ==
    pc = "done" =>
        \/ result.tag = "Err"
        \/ /\ result.tag = "Ok"
           /\ Len(result.sections) = Len(book0) + Len(posts)

\* C9: for every value of `directory` and every collected post, stripping
\* the source root from the post's path succeeds, the node's source path is
\* relative, joined with the source root it is the post's path again, and
\* the node's path equals its source path.
C9_RebaseNeverFails ==
    /\ ~PanicAt("strip_prefix")
    /\ pc \in {"graft", "done"} =>
           \A i \in 1..Len(Appended(book)) :
               LET node == Appended(book)[i]
               IN  /\ ~IsAbsolute(node.source_path)
                   /\ PathJoin(src_dir, node.source_path) = posts[i].path
                   /\ node.path = node.source_path

\* C10: after a successful run the tree's items are the items it was given,
\* unchanged and in their order, followed by exactly one new node per
\* collected post, in the order of the sorted posts, each with the ancestor
\* list [chapter_name].
C10_AppendsPostsInOrder ==
    (pc = "done" /\ result.tag = "Ok") =>
        /\ Len(result.sections) = Len(book0) + Len(posts)
        /\ SubSeq(result.sections, 1, Len(book0)) = book0
        /\ \A i \in 1..Len(posts) :
               LET node == Appended(result.sections)[i]
               IN  /\ node.parent_names = <<chapter_name>>
                   /\ PathJoin(src_dir, node.source_path) = posts[i].path
                   /\ node.content = FileContent(posts[i].path)

C10_Witness ==
    /\ pc = "done"
    /\ result.tag = "Ok"
    /\ book0 # <<>>
    /\ Len(posts) >= 2
    /\ posts[1].date # posts[2].date

=============================================================================
